---------------------------- MODULE Spec2Model ----------------------------
(***************************************************************************)
(* Model of generate_abaqus_input (src/main.py, lines 7-63) and of the     *)
(* caller that invokes it once per button press (src/main.py, line 79).    *)
(*                                                                         *)
(* Numbers.  The five arguments are Python floats.  They are modelled as   *)
(* integers counting thousandths (1250 stands for 1.25), and float         *)
(* arithmetic on them as exact arithmetic; for every input below the       *)
(* Python floats give the same counts and the same printed z.  x and y are *)
(* radius*cos(..) and radius*sin(..): they are kept as symbolic terms,     *)
(* since their digits need a cosine.                                       *)
(*                                                                         *)
(* Text.  output is the StringIO buffer, a string; every write appends to  *)
(* it.  The document is read back by splitting the returned string into    *)
(* lines and fields.                                                       *)
(***************************************************************************)
EXTENDS Integers, Sequences, FiniteSets, TLC

VARIABLES
    pc,                             \* position of the program
    args,                           \* the five arguments of the running call
    radius,                         \* line 8
    num_circumferential_elements,   \* line 9
    num_vertical_elements,          \* line 10
    output,                         \* line 12, the StringIO buffer
    node_id,                        \* line 19
    nodes,                          \* line 20, (i, j) -> node id
    node_coordinates,               \* line 21
    element_id,                     \* line 35
    i, j,                           \* loop indices of lines 23/25 and 36/37
    ret,                            \* what the call returned (line 63)
    kept                            \* an earlier call and its result, when the caller remembers one

vars == <<pc, args, radius, num_circumferential_elements, num_vertical_elements,
          output, node_id, nodes, node_coordinates, element_id, i, j, ret, kept>>

---------------------------------------------------------------------------
(* Inputs the user can type into the five number_input widgets (lines      *)
(* 70-74); the widgets set no minimum, so zero and negative values arrive. *)

Diameters == {-1000, 1250, 1500}
Thicknesses == {500, 1125}
Heights == {-1000, 2000}
Moduli == {29000000}
ElementSizes == {-1000, 0, 1000, 1309, 2000}

Inputs ==
    [diameter : Diameters, thickness : Thicknesses, height : Heights,
     youngs_modulus : Moduli, element_size : ElementSizes]

NONE == "none"

---------------------------------------------------------------------------
(* Arithmetic and formatting                                               *)

PI_NUM == 31416
PI_DEN == 10000

Abs(n) == IF n < 0 THEN -n ELSE n

\* int(a / b) of Python: the quotient truncated toward zero (b # 0)
TruncDiv(a, b) ==
    IF (a < 0) = (b < 0) THEN Abs(a) \div Abs(b) ELSE -(Abs(a) \div Abs(b))

\* line 9: int((3.1416 * diameter) / element_size)
CircumferentialCount(diameter, element_size) ==
    TruncDiv(PI_NUM * diameter, PI_DEN * element_size)

\* line 10: int(height / element_size)
VerticalCount(height, element_size) == TruncDiv(height, element_size)

Pad3(n) ==
    IF n < 10 THEN "00" \o ToString(n)
    ELSE IF n < 100 THEN "0" \o ToString(n) ELSE ToString(n)

\* f"{v:.3f}" of a float that is m thousandths; neg is the float's sign bit
Fmt3(neg, m) ==
    (IF neg THEN "-" ELSE "") \o ToString(Abs(m) \div 1000) \o "." \o Pad3(Abs(m) % 1000)

\* line 24: z = i * element_size, with the sign bit of the float product
\* (0 * -1.0 is -0.0 and prints as -0.000)
ZValue(ring, element_size) == [neg |-> element_size < 0, m |-> ring * element_size]

\* lines 26-28: radius * cos(radians(theta)), radius * sin(radians(theta))
\* with theta = (j / n) * 360.0, as a symbolic term
Trig(fn, r, col, n) == [fn |-> fn, r |-> r, col |-> col, n |-> n]

\* f"{x:.3f}" of a symbolic term: a token that names the term
Fmt3Trig(t) ==
    t.fn \o "(" \o ToString(t.col) \o "/" \o ToString(t.n) \o ")*"
         \o ToString(t.r[1]) \o "/" \o ToString(t.r[2])

\* f"{v}" of a float that is m thousandths: the shortest repr
PyFloatStr(m) ==
    LET a == Abs(m)
        f == a % 1000
        frac == IF f % 100 = 0 THEN ToString(f \div 100)
                ELSE IF f % 10 = 0
                     THEN (IF f < 100 THEN "0" ELSE "") \o ToString(f \div 10)
                     ELSE Pad3(f)
    IN (IF m < 0 THEN "-" ELSE "") \o ToString(a \div 1000) \o "." \o frac

---------------------------------------------------------------------------
(* The pieces of text the function writes                                  *)

\* lines 13-17
HeaderText ==
    "** Abaqus Input File for Shell Model of a Vessel\n"
    \o "*Heading\n"
    \o "Pressure Vessel Model\n\n"
    \o "*Part, name=Vessel\n"
    \o "*Node\n"

\* line 29
NodeLine(id, x, y, z) ==
    ToString(id) \o ", " \o Fmt3Trig(x) \o ", " \o Fmt3Trig(y) \o ", "
        \o Fmt3(z.neg, z.m) \o "\n"

\* line 34
ElementHeaderText == "*Element, type=S4\n"

\* lines 38-41: the four corners of the quad at ring r, column c
ElementNodes_noWrapUp(nd, r, c, n) ==
    << nd[<<r, c>>], nd[<<r, (c + 1) % n>>], nd[<<r + 1, c>>], nd[<<r + 1, c>>] >>

ElementNodes_swapped(nd, r, c, n) ==
    << nd[<<r, c>>], nd[<<r, (c + 1) % n>>], nd[<<r + 1, c>>], nd[<<r + 1, (c + 1) % n>>] >>

ElementNodes_sameRing(nd, r, c, n) ==
    << nd[<<r, c>>], nd[<<r, (c + 1) % n>>], nd[<<r, (c + 1) % n>>], nd[<<r + 1, c>>] >>

ElementNodes(nd, r, c, n) ==
    << nd[<<r, c>>], nd[<<r, (c + 1) % n>>], nd[<<r + 1, (c + 1) % n>>], nd[<<r + 1, c>>] >>

\* line 42
ElementLine(id, q) ==
    ToString(id) \o ", " \o ToString(q[1]) \o ", " \o ToString(q[2]) \o ", "
        \o ToString(q[3]) \o ", " \o ToString(q[4]) \o "\n"

\* lines 45-57
FooterText_materialLast(youngs_modulus, thickness) ==
    "*End Part\n\n"
    \o "*Shell Section, elset=ALL_ELEMENTS, material=Steel, thickness="
    \o PyFloatStr(thickness) \o "\n"
    \o "*Material, name=Steel\n"
    \o "*Elastic\n"
    \o PyFloatStr(youngs_modulus) \o ", 0.3\n\n"
    \o "*Assembly, name=Assembly\n"
    \o "*Instance, name=Vessel-1, part=Vessel\n"
    \o "*End Instance\n"
    \o "*End Assembly\n\n"
    \o "*Step, name=StaticStep, nlgeom=YES\n"
    \o "*Static\n"
    \o "1.0, 1.0, 1e-05, 1.0\n\n"
    \o "*End Step\n"

FooterText(youngs_modulus, thickness) ==
    "*End Part\n\n"
    \o "*Material, name=Steel\n"
    \o "*Elastic\n"
    \o PyFloatStr(youngs_modulus) \o ", 0.3\n\n"
    \o "*Shell Section, elset=ALL_ELEMENTS, material=Steel, thickness="
    \o PyFloatStr(thickness) \o "\n"
    \o "*Assembly, name=Assembly\n"
    \o "*Instance, name=Vessel-1, part=Vessel\n"
    \o "*End Instance\n"
    \o "*End Assembly\n\n"
    \o "*Step, name=StaticStep, nlgeom=YES\n"
    \o "*Static\n"
    \o "1.0, 1.0, 1e-05, 1.0\n\n"
    \o "*End Step\n"

\* line 61: str.encode('utf-8').  Every character the function writes is
\* ASCII, and UTF-8 encodes an ASCII character as the one byte of its code.
Run(chars, first) ==
    [c \in {SubSeq(chars, k, k) : k \in 1..Len(chars)} |->
        first - 1 + (CHOOSE k \in 1..Len(chars) : SubSeq(chars, k, k) = c)]

CodeOf ==
    Run("0123456789", 48) @@ Run("ABCDEFGHIJKLMNOPQRSTUVWXYZ", 65)
    @@ Run("abcdefghijklmnopqrstuvwxyz", 97) @@ Run("()*", 40) @@ Run(",-./", 44)
    @@ ("\n" :> 10) @@ (" " :> 32) @@ ("=" :> 61) @@ ("_" :> 95)

Utf8(text) == [k \in 1..Len(text) |-> CodeOf[SubSeq(text, k, k)]]

---------------------------------------------------------------------------
(* The program                                                             *)

\* the value node_id has when the node pass starts (line 19)
FirstNodeId_carried(previous) == IF previous = 0 THEN 1 ELSE previous

FirstNodeId(previous) == 1

\* the id given to the node after the one with id n (line 32)
NextNodeId_skipping(n) == n + 2

NextNodeId(n) == n + 1

Init ==
    /\ pc = "idle"
    /\ args = NONE
    /\ radius = NONE
    /\ num_circumferential_elements = 0
    /\ num_vertical_elements = 0
    /\ output = ""
    /\ node_id = 0
    /\ nodes = <<>>
    /\ node_coordinates = <<>>
    /\ element_id = 0
    /\ i = 0
    /\ j = 0
    /\ ret = NONE
    /\ kept = {}

\* line 79 calls the function; lines 8-10 run.  A zero element_size makes
\* the division of line 9 raise ZeroDivisionError: the call produces nothing.
\* The caller may remember the call that just returned, to compare a later
\* one with it.
Call ==
    /\ pc \in {"idle", "done", "raised"}
    /\ \/ kept' = kept
       \/ pc = "done" /\ kept' = {[args |-> args, ret |-> ret]}
    /\ \E a \in Inputs :
        /\ args' = a
        /\ radius' = <<a.diameter, 2>>
        /\ IF a.element_size = 0
           THEN /\ pc' = "raised"
                /\ UNCHANGED <<num_circumferential_elements, num_vertical_elements>>
           ELSE /\ pc' = "header"
                /\ num_circumferential_elements' =
                       CircumferentialCount(a.diameter, a.element_size)
                /\ num_vertical_elements' = VerticalCount(a.height, a.element_size)
    /\ ret' = NONE
    /\ UNCHANGED <<output, node_id, nodes, node_coordinates, element_id, i, j>>

\* lines 12-21, and the loops of lines 23 and 25 start
WriteHeader ==
    /\ pc = "header"
    /\ output' = HeaderText
    /\ node_id' = FirstNodeId(node_id)
    /\ nodes' = <<>>
    /\ node_coordinates' = <<>>
    /\ i' = 0
    /\ j' = 0
    /\ pc' = "nodes"
    /\ UNCHANGED <<args, radius, num_circumferential_elements, num_vertical_elements,
                   element_id, ret, kept>>

\* range(rows) x range(cols) has a body to run at (i, j)
InLoop(rows, cols) == i < rows /\ j < cols

\* lines 24-32, one pass of the inner loop body
NodeStep ==
    /\ pc = "nodes"
    /\ InLoop(num_vertical_elements + 1, num_circumferential_elements)
    /\ LET z == ZValue(i, args.element_size)
           x == Trig("cos", radius, j, num_circumferential_elements)
           y == Trig("sin", radius, j, num_circumferential_elements)
       IN /\ output' = output \o NodeLine(node_id, x, y, z)
          /\ nodes' = (<<i, j>> :> node_id) @@ nodes
          /\ node_coordinates' = Append(node_coordinates, <<x, y, z>>)
    /\ node_id' = NextNodeId(node_id)
    /\ IF j + 1 < num_circumferential_elements
       THEN j' = j + 1 /\ i' = i
       ELSE j' = 0 /\ i' = i + 1
    /\ UNCHANGED <<pc, args, radius, num_circumferential_elements,
                   num_vertical_elements, element_id, ret, kept>>

\* lines 34-35 once the node loops are exhausted, and the loops of lines 36
\* and 37 start
WriteElementHeader ==
    /\ pc = "nodes"
    /\ ~InLoop(num_vertical_elements + 1, num_circumferential_elements)
    /\ output' = output \o ElementHeaderText
    /\ element_id' = 1
    /\ i' = 0
    /\ j' = 0
    /\ pc' = "elements"
    /\ UNCHANGED <<args, radius, num_circumferential_elements, num_vertical_elements,
                   node_id, nodes, node_coordinates, ret, kept>>

\* lines 38-43, one pass of the inner loop body
ElementStep ==
    /\ pc = "elements"
    /\ InLoop(num_vertical_elements, num_circumferential_elements)
    /\ output' = output \o
           ElementLine(element_id, ElementNodes(nodes, i, j, num_circumferential_elements))
    /\ element_id' = element_id + 1
    /\ IF j + 1 < num_circumferential_elements
       THEN j' = j + 1 /\ i' = i
       ELSE j' = 0 /\ i' = i + 1
    /\ UNCHANGED <<pc, args, radius, num_circumferential_elements,
                   num_vertical_elements, node_id, nodes, node_coordinates, ret, kept>>

\* lines 45-57 once the element loops are exhausted
WriteFooter ==
    /\ pc = "elements"
    /\ ~InLoop(num_vertical_elements, num_circumferential_elements)
    /\ output' = output \o FooterText(args.youngs_modulus, args.thickness)
    /\ pc' = "footer"
    /\ UNCHANGED <<args, radius, num_circumferential_elements, num_vertical_elements,
                   node_id, nodes, node_coordinates, element_id, i, j, ret, kept>>

\* lines 59-63, and the caller of line 79 receives the three values
Return ==
    /\ pc = "footer"
    /\ ret' = [inp_content |-> output,
               byte_data |-> Utf8(output),
               node_coordinates |-> node_coordinates]
    /\ pc' = "done"
    /\ UNCHANGED <<args, radius, num_circumferential_elements, num_vertical_elements,
                   output, node_id, nodes, node_coordinates, element_id, i, j, kept>>

Next ==
    \/ Call
    \/ WriteHeader
    \/ NodeStep
    \/ WriteElementHeader
    \/ ElementStep
    \/ WriteFooter
    \/ Return

Spec == Init /\ [][Next]_vars

---------------------------------------------------------------------------
(* Reading a returned document back                                        *)

\* the pieces of text between the occurrences of sep, in order
Split(text, sep) ==
    LET w == Len(sep)
        at == {k \in 1..(Len(text) - w + 1) : SubSeq(text, k, k + w - 1) = sep}
        n == Cardinality(at)
        rank == [p \in at |-> Cardinality({q \in at : q <= p})]
        pos == [m \in 1..n |-> CHOOSE p \in at : rank[p] = m]
    IN [m \in 1..(n + 1) |->
           SubSeq(text, IF m = 1 THEN 1 ELSE pos[m - 1] + w,
                        IF m = n + 1 THEN Len(text) ELSE pos[m] - 1)]

\* the lines of a text, each without its newline
Lines(text) ==
    LET parts == Split(text, "\n")
    IN SubSeq(parts, 1, Len(parts) - 1)

\* the comma-separated fields of a line
Fields(line) == Split(line, ", ")

IsDigit(c) == c \in {"0", "1", "2", "3", "4", "5", "6", "7", "8", "9"}

IsNat(s) == Len(s) > 0 /\ \A k \in 1..Len(s) : IsDigit(SubSeq(s, k, k))

RECURSIVE ParseNat(_)
ParseNat(s) ==
    IF Len(s) = 0 THEN 0
    ELSE 10 * ParseNat(SubSeq(s, 1, Len(s) - 1))
         + (CHOOSE d \in 0..9 : ToString(d) = SubSeq(s, Len(s), Len(s)))

IsKeyword(line) == Len(line) > 1 /\ SubSeq(line, 1, 1) = "*" /\ SubSeq(line, 2, 2) # "*"

\* index of the only line equal to kw, 0 when there is none or several
LineOf(L, kw) ==
    LET at == {k \in 1..Len(L) : L[k] = kw}
    IN IF Cardinality(at) = 1 THEN CHOOSE k \in at : TRUE ELSE 0

\* the document: its lines, the fields of the lines of the *Node block and
\* the rows (id, n1, n2, n3, n4) of the *Element block
ReadDocument(text) ==
    LET L == Lines(text)
        nodeAt == LineOf(L, "*Node")
        elemAt == LineOf(L, "*Element, type=S4")
        endAt == LineOf(L, "*End Part")
    IN [lines |-> L,
        nodeAt |-> nodeAt, elemAt |-> elemAt, endAt |-> endAt,
        nodeLines |-> [k \in 1..(elemAt - nodeAt - 1) |-> Fields(L[nodeAt + k])],
        elementLines |-> [k \in 1..(endAt - elemAt - 1) |-> Fields(L[elemAt + k])]]

\* the returned document, read back
Doc == ReadDocument(ret.inp_content)

Returned == pc = "done"

C == num_circumferential_elements
V == num_vertical_elements

\* an element line as a row of integers
Row(fields) == [k \in 1..Len(fields) |-> ParseNat(fields[k])]

WellFormedElements(doc) ==
    \A k \in 1..Len(doc.elementLines) :
        /\ Len(doc.elementLines[k]) = 5
        /\ \A f \in 1..5 : IsNat(doc.elementLines[k][f])

WellFormedNodes(doc) ==
    \A k \in 1..Len(doc.nodeLines) :
        /\ Len(doc.nodeLines[k]) = 4
        /\ IsNat(doc.nodeLines[k][1])

NodeIdsOf(doc) == {ParseNat(doc.nodeLines[k][1]) : k \in 1..Len(doc.nodeLines)}

Corners(row) == {row[2], row[3], row[4], row[5]}

\* a field printed with three decimals, read back in thousandths
ParseMilli(s) ==
    LET neg == SubSeq(s, 1, 1) = "-"
        body == IF neg THEN SubSeq(s, 2, Len(s)) ELSE s
        parts == Split(body, ".")
        m == 1000 * ParseNat(parts[1]) + ParseNat(parts[2])
    IN IF neg THEN -m ELSE m

Rows(doc) == [k \in 1..Len(doc.elementLines) |-> Row(doc.elementLines[k])]

\* the id of the node at ring r, column c of the grid
GridId(r, c) == r * C + c + 1

ValidGeometry ==
    /\ args.diameter > 0
    /\ args.height > 0
    /\ args.element_size > 0
    /\ C >= 3
    /\ V >= 1

---------------------------------------------------------------------------
(* Claims                                                                  *)

\* C1: when a call with C >= 3 and V >= 1 returns, every element line of the
\* document lists exactly 4 node ids, pairwise distinct, each among the ids
\* 1..(V+1)*C of the node lines, and together the elements reference every
\* node id.
C1_ElementsReferenceAllNodes ==
    (Returned /\ C >= 3 /\ V >= 1) =>
        LET doc == Doc
            ids == NodeIdsOf(doc)
            rows == Rows(doc)
        IN /\ WellFormedNodes(doc)
           /\ WellFormedElements(doc)
           /\ ids = 1..((V + 1) * C)
           /\ \A k \in 1..Len(rows) :
                  /\ Cardinality(Corners(rows[k])) = 4
                  /\ Corners(rows[k]) \subseteq ids
           /\ UNION {Corners(rows[k]) : k \in 1..Len(rows)} = ids

C1_Witness ==
    /\ Returned
    /\ C >= 4
    /\ V >= 2
    /\ Len(Doc.elementLines) = V * C

\* C2: a call returns a document only for valid geometry (positive
\* diameter, height and element size, C >= 3, V >= 1), and a returned
\* document has a node line, an element line and no element that names a
\* node twice.
C2_InvalidGeometryRejected ==
    Returned =>
        LET doc == Doc
            rows == Rows(doc)
        IN /\ ValidGeometry
           /\ Len(doc.nodeLines) > 0
           /\ Len(doc.elementLines) > 0
           /\ \A k \in 1..Len(rows) : Cardinality(Corners(rows[k])) = 4

\* C3: when a call returns, the document has (V+1)*C node lines, the
\* coordinate list has (V+1)*C entries and the document has V*C element
\* lines.
C3_Counts ==
    Returned =>
        /\ Len(Doc.nodeLines) = (V + 1) * C
        /\ Len(ret.node_coordinates) = (V + 1) * C
        /\ Len(Doc.elementLines) = V * C

\* C4: when a call returns, for every ring r in 0..V-1 and column c in
\* 0..C-1 the element line with id r*C + c + 1 lists the ids of the grid
\* positions (r, c), (r, (c+1) mod C), (r+1, (c+1) mod C), (r+1, c) in this
\* order; every position looked up is in the grid, and the element of the
\* last column lists the nodes of column 0.
C4_QuadOrderAndSeam ==
    Returned =>
        LET rows == Rows(Doc)
        IN \A r \in 0..(V - 1) : \A c \in 0..(C - 1) :
               LET id == r * C + c + 1
               IN /\ id \in 1..Len(rows)
                  /\ rows[id] = << id, GridId(r, c), GridId(r, (c + 1) % C),
                                   GridId(r + 1, (c + 1) % C), GridId(r + 1, c) >>
                  /\ {<<r, (c + 1) % C>>, <<r + 1, (c + 1) % C>>} \subseteq DOMAIN nodes
                  /\ c = C - 1 =>
                         /\ rows[id][3] = nodes[<<r, 0>>]
                         /\ rows[id][4] = nodes[<<r + 1, 0>>]

C4_Witness ==
    /\ Returned
    /\ C >= 3
    /\ V >= 2
    /\ Rows(Doc)[V * C] = << V * C, V * C, (V - 1) * C + 1, V * C + 1, (V + 1) * C >>

\* C5: when a call returns, the k-th node line has id k, the node of grid
\* position (r, c) has id r*C + c + 1, its z printed in the text and stored
\* in the coordinate list is r * element_size, and the k-th entry of the
\* coordinate list is the coordinate printed on the line of node k.
C5_NodeIdsRingMajor ==
    Returned =>
        LET doc == Doc
            n == Len(doc.nodeLines)
        IN /\ WellFormedNodes(doc)
           /\ \A k \in 1..n : ParseNat(doc.nodeLines[k][1]) = k
           /\ DOMAIN nodes = {<<r, c>> : r \in 0..V, c \in 0..(C - 1)}
           /\ \A rc \in DOMAIN nodes : nodes[rc] = GridId(rc[1], rc[2])
           /\ Len(ret.node_coordinates) = n
           /\ \A k \in 1..n :
                  LET xyz == ret.node_coordinates[k]
                      r == (k - 1) \div C
                  IN /\ xyz[3].m = r * args.element_size
                     /\ ParseMilli(doc.nodeLines[k][4]) = r * args.element_size
                     /\ xyz[1].col = (k - 1) % C
                     /\ xyz[2].col = (k - 1) % C
                     /\ doc.nodeLines[k][2] = Fmt3Trig(xyz[1])
                     /\ doc.nodeLines[k][3] = Fmt3Trig(xyz[2])

C5_Witness ==
    /\ Returned
    /\ C >= 3
    /\ V >= 2
    /\ ParseNat(Doc.nodeLines[(V + 1) * C][1]) = (V + 1) * C
    /\ ParseMilli(Doc.nodeLines[(V + 1) * C][4]) = 2000

\* C6: when a call returns and an earlier call with the same five arguments
\* is remembered, the two calls returned the same text, bytes and
\* coordinate list, whatever ran in between; and the bytes returned are the
\* UTF-8 encoding of the text returned.
C6_Deterministic ==
    Returned =>
        /\ \A e \in kept : e.args = args => e.ret = ret
        /\ Len(ret.byte_data) = Len(ret.inp_content)
        /\ \A k \in 1..Len(ret.inp_content) :
               ret.byte_data[k] = CodeOf[SubSeq(ret.inp_content, k, k)]

C6_Witness ==
    /\ Returned
    /\ \E e \in kept : e.args = args
    /\ Len(ret.node_coordinates) >= 9

\* floor(a / b) for b > 0
FloorDiv(a, b) == a \div b

\* C7: for positive diameter, height and element size, C is
\* floor(pi * diameter / element_size) and V is floor(height / element_size).
\* pi lies between 333/106 and 355/113, so the floor lies between the floors
\* taken with these two fractions.
C7_CountsAreFloorOfPi ==
    (pc \notin {"idle", "raised"}
        /\ args.diameter > 0 /\ args.height > 0 /\ args.element_size > 0) =>
        /\ C >= FloorDiv(333 * args.diameter, 106 * args.element_size)
        /\ C <= FloorDiv(355 * args.diameter, 113 * args.element_size)
        /\ V = FloorDiv(args.height, args.element_size)

\* the lines that follow the element block, for a modulus and a thickness
FooterLines(modulus, thickness) ==
    << "*End Part", "",
       "*Material, name=Steel", "*Elastic", modulus \o ", 0.3", "",
       "*Shell Section, elset=ALL_ELEMENTS, material=Steel, thickness=" \o thickness,
       "*Assembly, name=Assembly", "*Instance, name=Vessel-1, part=Vessel",
       "*End Instance", "*End Assembly", "",
       "*Step, name=StaticStep, nlgeom=YES", "*Static", "1.0, 1.0, 1e-05, 1.0", "",
       "*End Step" >>

\* C8: a returned document is, in this order: the comment and heading,
\* '*Part, name=Vessel', '*Node', the node lines, '*Element, type=S4', the
\* element lines in ascending id order, '*End Part', the material block, the
\* shell-section line, the assembly block and the static step; no keyword
\* line occurs twice.
C8_BlockOrder ==
    Returned =>
        LET doc == Doc
            L == doc.lines
            foot == FooterLines(PyFloatStr(args.youngs_modulus), PyFloatStr(args.thickness))
        IN /\ SubSeq(L, 1, 6) = << "** Abaqus Input File for Shell Model of a Vessel",
                                   "*Heading", "Pressure Vessel Model", "",
                                   "*Part, name=Vessel", "*Node" >>
           /\ doc.nodeAt = 6
           /\ doc.elemAt >= 7
           /\ doc.endAt > doc.elemAt
           /\ \A k \in 1..Len(doc.nodeLines) :
                  /\ ~IsKeyword(L[6 + k])
                  /\ Len(doc.nodeLines[k]) = 4
           /\ WellFormedElements(doc)
           /\ \A k \in 1..Len(doc.elementLines) : ParseNat(doc.elementLines[k][1]) = k
           /\ SubSeq(L, doc.endAt, Len(L)) = foot
           /\ \A a, b \in 1..Len(L) : (IsKeyword(L[a]) /\ L[a] = L[b]) => a = b

C8_Witness ==
    /\ Returned
    /\ Len(Doc.nodeLines) >= 9
    /\ Len(Doc.elementLines) >= 6
    /\ Doc.lines[Doc.endAt + 4] = "29000.0, 0.3"
    /\ Doc.lines[Doc.endAt + 6]
           = "*Shell Section, elset=ALL_ELEMENTS, material=Steel, thickness=1.125"

\* the value of the parameter key of a keyword line, "" when it has none
Param(fields, key) ==
    LET w == Len(key) + 1
        at == {f \in 2..Len(fields) :
                  Len(fields[f]) >= w /\ SubSeq(fields[f], 1, w) = key \o "="}
    IN IF at = {} THEN ""
       ELSE LET f == CHOOSE f \in at : TRUE IN SubSeq(fields[f], w + 1, Len(fields[f]))

\* line k of L defines the element set name: an *Elset line of that name,
\* or an *Element line that collects its elements into it
DefinesElset(L, k, name) ==
    /\ Fields(L[k])[1] \in {"*Elset", "*Element"}
    /\ Param(Fields(L[k]), "elset") = name

\* C9: in a returned document the element set named by the '*Shell Section'
\* line is defined by an earlier line of the document, as the material and
\* the part are.
C9_ElsetDefined ==
    Returned =>
        LET L == Doc.lines
        IN \E k \in 1..Len(L) :
               /\ Fields(L[k])[1] = "*Shell Section"
               /\ \E m \in 1..(k - 1) :
                      /\ Fields(L[m])[1] = "*Material"
                      /\ Param(Fields(L[m]), "name") = Param(Fields(L[k]), "material")
               /\ \E m \in 1..(k - 1) : DefinesElset(L, m, Param(Fields(L[k]), "elset"))

\* the material named by the shell section is defined: the half of C9 that
\* the code meets
MaterialDefined ==
    Returned =>
        LET L == Doc.lines
        IN \E k \in 1..Len(L) :
               /\ Fields(L[k])[1] = "*Shell Section"
               /\ \E m \in 1..(k - 1) :
                      /\ Fields(L[m])[1] = "*Material"
                      /\ Param(Fields(L[m]), "name") = Param(Fields(L[k]), "material")

\* C10: when a call with C >= 3 and V >= 1 returns, every node of ring 0 and
\* of ring V is referenced by exactly 2 elements, every node of a ring
\* between by exactly 4, no node is the same corner of two elements, and no
\* two elements have the same set of nodes.
C10_RegularConnectivity ==
    (Returned /\ C >= 3 /\ V >= 1) =>
        LET rows == Rows(Doc)
            E == 1..Len(rows)
        IN /\ \A n \in 1..((V + 1) * C) :
                  LET ring == (n - 1) \div C
                      uses == Cardinality({k \in E : n \in Corners(rows[k])})
                  IN /\ uses = IF ring \in {0, V} THEN 2 ELSE 4
                     /\ \A p \in 2..5 : Cardinality({k \in E : rows[k][p] = n}) <= 1
           /\ \A a, b \in E : Corners(rows[a]) = Corners(rows[b]) => a = b

C10_Witness ==
    /\ Returned
    /\ C >= 3
    /\ V >= 2
    /\ Cardinality({k \in 1..Len(Rows(Doc)) : (C + 1) \in Corners(Rows(Doc)[k])}) = 4

=============================================================================
